---------------------------- MODULE Spec2Model ----------------------------
(***************************************************************************)
(* A model of the March Madness ELO simulator (src/simulator.py) and of    *)
(* the way src/run.py and src/test_simulator.py drive it.                  *)
(*                                                                         *)
(* Team objects live in a heap (a sequence of records); a list of Teams is *)
(* a sequence of heap indices, so that aliasing and copy.deepcopy are      *)
(* visible.  Floats are fixed point: a rating is an integer number of      *)
(* 1/RScale rating points, a probability an integer number of 1/PScale.    *)
(* An addition to a rating rounds to the rating grid, ties to even, as an  *)
(* IEEE double addition rounds to the spacing of the larger operand.       *)
(***************************************************************************)
EXTENDS Integers, Sequences, FiniteSets, TLC

(***************************************************************************)
(* Numeric representation                                                  *)
(***************************************************************************)
\* rating units per rating point (resolution of Team.elo)
RScale == 1000
\* probability units per 1.0 (resolution of win_prob's result)
PScale == 1000000
\* rating units per factor 10 of odds: the 400.0 of win_prob
Decade == 400 * RScale
\* ln(10) / 400 per rating unit, in units of 1 / (PScale * PScale)
Ln10Over400 == 5756463
\* K = 20: ELO K-factor
K == 20

\* round(a * b / PScale) for 0 <= a, b, computed in three-digit limbs so
\* that no intermediate product leaves 32 bits
MulFix[a \in Nat, b \in Nat] ==
    LET ah == a \div 1000
        al == a % 1000
        bh == b \div 1000
        bl == b % 1000
        m  == ah * bl + al * bh
        lo == (m % 1000) * 1000 + al * bl + (PScale \div 2)
    IN  ah * bh + (m \div 1000) + (lo \div PScale)

\* sum of the power series of exp, from the term t^k / k! on, in PScale units
ExpSeries[t \in Nat, term \in Nat, k \in Nat] ==
    LET next == (MulFix[term, t] + (k \div 2)) \div k
    IN  IF next = 0 THEN 0 ELSE next + ExpSeries[t, next, k + 1]

\* 10 ** (d / 400.0) for a rating difference d in rating units, in PScale
\* units: 10^q * exp(r * ln(10) / 400) with d = 400 * q + r, 0 <= r < 400
Pow10[d \in Int] ==
    LET q == d \div Decade
        r == d % Decade
        e == PScale + ExpSeries[MulFix[r, Ln10Over400], PScale, 1]
    IN  IF q >= 0 THEN e * (10 ^ q)
        ELSE (e + ((10 ^ (0 - q)) \div 2)) \div (10 ^ (0 - q))

\* floor(rem * 10^digits / den) by decimal long division
LongDiv[rem \in Nat, den \in Nat, digits \in Nat] ==
    IF digits = 0 THEN <<rem \div den, rem % den>>
    ELSE LET head == LongDiv[rem, den, digits - 1]
             x    == head[2] * 10
         IN  <<head[1] * 10 + (x \div den), x % den>>

\* 1.0 / (1.0 + pw) in PScale units, rounded to nearest
Reciprocal1p[pw \in Nat] ==
    LET den == PScale + pw
        qr  == LongDiv[PScale, den, 6]
    IN  IF 2 * qr[2] >= den THEN qr[1] + 1 ELSE qr[1]


(***************************************************************************)
(* Program constants                                                       *)
(***************************************************************************)
SEED_MATCHUPS ==
    << <<1, 16>>, <<8, 9>>, <<5, 12>>, <<4, 13>>,
       <<6, 11>>, <<3, 14>>, <<7, 10>>, <<2, 15>> >>

REGIONS == <<"east", "west", "south", "midwest">>

\* Final Four pairings that cross the regions: east vs south, west vs midwest
SEMIFINAL_PAIRS_Crossed == << <<"east", "south">>, <<"west", "midwest">> >>

\* Final Four pairings with a third semifinal
SEMIFINAL_PAIRS_Extra ==
    << <<"east", "west">>, <<"south", "midwest">>, <<"east", "south">> >>

\* Final Four pairings that name the east champion twice
SEMIFINAL_PAIRS_Repeated == << <<"east", "west">>, <<"east", "midwest">> >>

\* Final Four pairings: east vs west, south vs midwest
SEMIFINAL_PAIRS == << <<"east", "west">>, <<"south", "midwest">> >>

\* the number of probability columns: len(ROUND_KEYS)
NumStages == 6

Range(f) == {f[x] : x \in DOMAIN f}

\* a Team object: Team(name, elo, seed, region)
Team(name, elo, seed, region) ==
    [name |-> name, elo |-> elo, seed |-> seed, region |-> region]

(***************************************************************************)
(* The random module: a generator with hidden global state.  The state is  *)
(* modelled as a full-period linear congruential generator; random() steps *)
(* the state and returns it scaled to [0, 1).                              *)
(***************************************************************************)
RandMod == 65536
RandMul == 25173
RandInc == 13849

NextRng(s) == (RandMul * s + RandInc) % RandMod

\* the float in [0, 1) that random.random() returns in state s, PScale units
Uniform(s) == (s * (PScale \div 64)) \div (RandMod \div 64)

(***************************************************************************)
(* win_prob, update_elo, simulate_game                                     *)
(***************************************************************************)
\* win_prob with the difference taken the other way round
WinProbReversed(h, team_a, team_b) ==
    Reciprocal1p[Pow10[h[team_a].elo - h[team_b].elo]]

\* win_prob with // for /: the exponent is floored to a whole number
WinProbFloorDiv(h, team_a, team_b) ==
    Reciprocal1p[Pow10[((h[team_b].elo - h[team_a].elo) \div Decade) * Decade]]

\* 1.0 / (1.0 + 10 ** ((team_b.elo - team_a.elo) / 400.0))
WinProb(h, team_a, team_b) ==
    Reciprocal1p[Pow10[h[team_b].elo - h[team_a].elo]]

\* x + delta for a rating x (rating units) and a delta in 1/PScale points:
\* the exact sum rounded to the rating grid, ties to the even neighbour
AddRound[x \in Int, delta \in Int] ==
    LET fine == PScale \div RScale
        base == x + (delta \div fine)
        f    == delta % fine
    IN  IF 2 * f < fine THEN base
        ELSE IF 2 * f > fine THEN base + 1
        ELSE IF base % 2 = 0 THEN base ELSE base + 1

\* update_elo with p taken again for the loser, after the winner's update
UpdateEloRecomputed(h, winner, loser) ==
    LET p  == WinProb(h, winner, loser)
        h1 == [h EXCEPT ![winner].elo = AddRound[@, K * (PScale - p)]]
        p2 == WinProb(h1, winner, loser)
    IN  [h1 EXCEPT ![loser].elo = AddRound[@, K * (0 - (PScale - p2))]]

\* update_elo that leaves the loser's rating alone
UpdateEloWinnerOnly(h, winner, loser) ==
    LET p == WinProb(h, winner, loser)
    IN  [h EXCEPT ![winner].elo = AddRound[@, K * (PScale - p)]]

\* update_elo(winner, loser): the heap after the two in-place updates
UpdateElo(h, winner, loser) ==
    LET p  == WinProb(h, winner, loser)
        h1 == [h EXCEPT ![winner].elo = AddRound[@, K * (PScale - p)]]
    IN  [h1 EXCEPT ![loser].elo = AddRound[@, K * (0 - (PScale - p))]]

\* simulate_game without the call of update_elo
SimulateGameNoUpdate(h, team_a, team_b, u) ==
    LET p == WinProb(h, team_a, team_b)
        winner == IF u < p THEN team_a ELSE team_b
        loser  == IF u < p THEN team_b ELSE team_a
    IN  [heap |-> h, winner |-> winner, loser |-> loser]

\* simulate_game that decides the winner after updating team_a as the winner
SimulateGameLate(h, team_a, team_b, u) ==
    LET h1 == UpdateElo(h, team_a, team_b)
        p  == WinProb(h1, team_a, team_b)
        winner == IF u < p THEN team_a ELSE team_b
        loser  == IF u < p THEN team_b ELSE team_a
    IN  [heap |-> UpdateElo(h, winner, loser), winner |-> winner, loser |-> loser]

\* simulate_game(team_a, team_b) with u the value random.random() returned:
\* the (winner, loser) pair and the heap after update_elo
SimulateGame(h, team_a, team_b, u) ==
    LET p == WinProb(h, team_a, team_b)
        winner == IF u < p THEN team_a ELSE team_b
        loser  == IF u < p THEN team_b ELSE team_a
    IN  [heap |-> UpdateElo(h, winner, loser), winner |-> winner, loser |-> loser]

(***************************************************************************)
(* build_region_bracket, the partition by region, copy.deepcopy            *)
(***************************************************************************)
\* by_seed = {t.seed: t for t in region_teams}: a later team replaces an
\* earlier one of the same seed
BySeed(h, region_teams) ==
    [s \in {h[region_teams[k]].seed : k \in DOMAIN region_teams} |->
        LET last == CHOOSE k \in DOMAIN region_teams :
                       /\ h[region_teams[k]].seed = s
                       /\ \A j \in DOMAIN region_teams :
                             h[region_teams[j]].seed = s => j <= k
        IN  region_teams[last]]

\* build_region_bracket raises KeyError: a seed of SEED_MATCHUPS is missing
BracketRaises(h, region_teams) ==
    \E m \in DOMAIN SEED_MATCHUPS : \E c \in 1..2 :
        SEED_MATCHUPS[m][c] \notin DOMAIN BySeed(h, region_teams)

\* build_region_bracket that keeps the teams in the order given
BuildRegionBracketAsGiven(h, region_teams) == region_teams

\* build_region_bracket(region_teams): by_seed[s1], by_seed[s2] per matchup
BuildRegionBracket(h, region_teams) ==
    LET by_seed == BySeed(h, region_teams)
    IN  [k \in 1..(2 * Len(SEED_MATCHUPS)) |->
            by_seed[SEED_MATCHUPS[(k + 1) \div 2][2 - (k % 2)]]]

\* regions = {r: [] for r in REGIONS}; regions[t.region].append(t)
Partition(h, lst) ==
    [r \in Range(REGIONS) |-> SelectSeq(lst, LAMBDA t : h[t].region = r)]

\* the partition raises KeyError: a team's region is not one of REGIONS
PartitionRaises(h, lst) ==
    \E k \in DOMAIN lst : h[lst[k]].region \notin Range(REGIONS)

\* run_single without the copy: the caller's own list
DeepCopyAliased(h, lst) == [heap |-> h, list |-> lst]

\* copy.deepcopy(teams) of a list of distinct Teams: fresh objects appended
\* to the heap, and the list of them in the same order
DeepCopy(h, lst) ==
    [heap |-> h \o [k \in 1..Len(lst) |-> h[lst[k]]],
     list |-> [k \in 1..Len(lst) |-> Len(h) + k]]


(***************************************************************************)
(* State                                                                   *)
(***************************************************************************)
VARIABLES
    heap,             \* the Team objects: heap[t] is the object t refers to
    teams,            \* the caller's roster: a list of Team references
    orig,             \* history: the caller's Team objects as first built
    rng,              \* the hidden state of the random module
    pc,               \* the position of the caller
    entry,            \* the function of simulator.py the caller is inside
    n,                \* run_trials: the number of trials asked for
    arg,              \* the list argument of the call in progress
    regions,          \* simulate_tournament: regions
    reg,              \* simulate_tournament: index in REGIONS of reg
    current,          \* simulate_region: current
    next_round,       \* simulate_region: next_round
    round_results,    \* simulate_region: round_results
    all_rounds,       \* simulate_region: all_rounds
    i,                \* simulate_region: i of range(0, len(current), 2)
    region_winners,   \* simulate_tournament: region_winners
    region_brackets,  \* simulate_tournament: region_brackets
    f4_results,       \* simulate_tournament: f4_results
    f4_winners,       \* simulate_tournament: f4_winners
    result,           \* the value the last finished call returned
    results,          \* run_trials: the results gathered so far
    rows,             \* compute_probabilities: the rows returned
    trace             \* history: the calls made on single Teams

caller == <<teams, orig>>
frame  == <<regions, reg, current, next_round, round_results, all_rounds, i,
            region_winners, region_brackets, f4_results, f4_winners>>
vars   == <<heap, teams, orig, rng, pc, entry, n, arg, frame,
            result, results, rows, trace>>

(***************************************************************************)
(* Bounds of the model                                                     *)
(***************************************************************************)
\* rosters the caller may hold
NumRosters == 2
\* seeds random.seed(args.seed) may be given
NumSeeds == 12
\* --trials of run.py is at most this
MaxTrials == 3

(***************************************************************************)
(* Rosters                                                                 *)
(***************************************************************************)
\* base_elos of make_teams, by seed, in rating points
base_elos ==
    <<1800, 1750, 1720, 1700, 1680, 1660, 1640, 1620,
      1600, 1580, 1560, 1540, 1520, 1500, 1480, 1460>>

\* the rating, in rating units, of seed s of region r in roster kind k:
\* kind 1 is make_teams; kind 2 rates all teams 1500; a later kind k rates
\* the higher seed numbers higher, and the regions differently
RosterElo(k, r, s) ==
    IF k = 1 THEN base_elos[s] * RScale
    ELSE (1500 + (k - 2) * (7 * s + 3 * r)) * RScale + (k - 2) * (s * r)

\* make_teams(): region by region, seeds 1..16 in each
MakeTeams(k) ==
    [x \in 1..(Len(REGIONS) * 16) |->
        LET r == ((x - 1) \div 16) + 1
            s == ((x - 1) % 16) + 1
        IN  Team(<<REGIONS[r], s>>, RosterElo(k, r, s), s, REGIONS[r])]

NoFrame ==
    /\ regions = <<>> /\ reg = 0 /\ current = <<>> /\ next_round = <<>>
    /\ round_results = <<>> /\ all_rounds = <<>> /\ i = 0
    /\ region_winners = <<>> /\ region_brackets = <<>>
    /\ f4_results = <<>> /\ f4_winners = <<>>

\* a caller that holds the Teams of h in a list, before any call, with the
\* generator in state s
Fresh(h, s) ==
    /\ heap = h
    /\ teams = [x \in 1..Len(h) |-> x]
    /\ orig = h
    /\ rng = s
    /\ pc = "main"
    /\ entry = "none"
    /\ n = 0
    /\ NoFrame
    /\ result = <<>>
    /\ results = <<>>
    /\ rows = <<>>
    /\ trace = <<>>

\* run.py: teams = load_teams(...) after random.seed(args.seed)
Init ==
    /\ \E k \in 1..NumRosters : \E s \in 0..(NumSeeds - 1) : Fresh(MakeTeams(k), s)
    /\ arg = <<>>

(***************************************************************************)
(* simulate_region and simulate_tournament, one game per step              *)
(***************************************************************************)
\* simulate_region up to its first game: bracket, current, empty round lists;
\* or the KeyError of build_region_bracket, which nothing catches
EnterRegion(h, region_teams) ==
    IF BracketRaises(h, region_teams)
    THEN /\ pc' = "raised"
         /\ UNCHANGED <<current, all_rounds, round_results, next_round, i>>
    ELSE /\ pc' = "region"
         /\ current' = BuildRegionBracket(h, region_teams)
         /\ all_rounds' = <<>>
         /\ round_results' = <<>>
         /\ next_round' = <<>>
         /\ i' = 0

\* simulate_tournament(lst) up to the first game of the first region; or
\* the KeyError of regions[t.region], which nothing catches
EnterTournament(h, lst) ==
    /\ arg' = lst
    /\ IF PartitionRaises(h, lst)
       THEN /\ pc' = "raised"
            /\ UNCHANGED frame
       ELSE /\ regions' = Partition(h, lst)
            /\ reg' = 1
            /\ region_winners' = <<>>
            /\ region_brackets' = <<>>
            /\ f4_results' = <<>>
            /\ f4_winners' = <<>>
            /\ EnterRegion(h, Partition(h, lst)[REGIONS[1]])

\* next_round.append(loser)
AdvancingLoser(g) == g.loser

\* next_round.append(w): the team of a game that plays the next round
Advancing(g) == g.winner

\* One turn of the for loop of simulate_region: simulate_game on current[i],
\* current[i+1] with the generator stepping to state s, and what follows up
\* to the next game: the end of the round, the return of the region, the next
\* region of simulate_tournament
PlayRegionGame(s) ==
    /\ pc = "region"
    /\ i + 2 <= Len(current)
    /\ rng' = s
    /\ \E g \in {SimulateGame(heap, current[i + 1], current[i + 2], Uniform(s))} :
       LET rr == Append(round_results, <<g.winner, g.loser>>)
           nr == Append(next_round, Advancing(g))
           ar == Append(all_rounds, rr)
       IN  /\ heap' = g.heap
           /\ IF i + 2 < Len(current)
              THEN \* the round goes on
                   /\ round_results' = rr
                   /\ next_round' = nr
                   /\ i' = i + 2
                   /\ UNCHANGED <<current, all_rounds, regions, reg, region_winners,
                                  region_brackets, f4_results, f4_winners,
                                  pc, result>>
              ELSE IF Len(nr) > 1
              THEN \* all_rounds.append(round_results); current = next_round
                   /\ all_rounds' = ar
                   /\ current' = nr
                   /\ round_results' = <<>>
                   /\ next_round' = <<>>
                   /\ i' = 0
                   /\ UNCHANGED <<regions, reg, region_winners, region_brackets,
                                  f4_results, f4_winners, pc, result>>
              ELSE IF entry = "simulate_region"
              THEN \* return current[0], all_rounds to the caller
                   /\ result' = <<nr[1], ar>>
                   /\ pc' = "returned"
                   /\ all_rounds' = ar
                   /\ current' = nr
                   /\ UNCHANGED <<round_results, next_round, i, regions, reg,
                                  region_winners, region_brackets,
                                  f4_results, f4_winners>>
              ELSE \* back in simulate_tournament's loop over REGIONS
                   /\ region_winners' = (REGIONS[reg] :> nr[1]) @@ region_winners
                   /\ region_brackets' = (REGIONS[reg] :> ar) @@ region_brackets
                   /\ UNCHANGED <<regions, f4_results, f4_winners, result>>
                   /\ IF reg < Len(REGIONS)
                      THEN /\ reg' = reg + 1
                           /\ EnterRegion(heap', regions[REGIONS[reg + 1]])
                      ELSE /\ pc' = "final_four"
                           /\ all_rounds' = ar
                           /\ current' = nr
                           /\ UNCHANGED <<reg, round_results, next_round, i>>
    /\ UNCHANGED <<caller, entry, n, arg, results, rows, trace>>

\* One turn of the loop over SEMIFINAL_PAIRS
PlaySemifinal(s) ==
    /\ pc = "final_four"
    /\ rng' = s
    /\ LET pair == SEMIFINAL_PAIRS[Len(f4_results) + 1]
           g == SimulateGame(heap, region_winners[pair[1]],
                             region_winners[pair[2]], Uniform(s))
       IN  /\ heap' = g.heap
           /\ f4_results' = Append(f4_results, <<g.winner, g.loser>>)
           /\ f4_winners' = Append(f4_winners, g.winner)
           /\ pc' = IF Len(f4_results) + 1 < Len(SEMIFINAL_PAIRS)
                    THEN "final_four" ELSE "championship"
    /\ UNCHANGED <<caller, entry, n, arg, regions, reg, current, next_round,
                   round_results, all_rounds, i, region_winners,
                   region_brackets, result, results, rows, trace>>

\* the dict simulate_tournament returns
TournamentResult(champ, runner_up) ==
    [region_brackets |-> region_brackets,
     region_winners  |-> region_winners,
     f4_results      |-> f4_results,
     champ_result    |-> <<champ, runner_up>>,
     champion        |-> champ]

\* The championship game and the return of simulate_tournament (and of
\* run_single); inside run_trials the result joins the list being built
PlayChampionship(s) ==
    /\ pc = "championship"
    /\ rng' = s
    /\ LET g == SimulateGame(heap, f4_winners[1], f4_winners[2], Uniform(s))
           res == TournamentResult(g.winner, g.loser)
       IN  /\ heap' = g.heap
           /\ IF entry = "run_trials"
              THEN /\ results' = Append(results, res)
                   /\ pc' = "trials"
                   /\ UNCHANGED result
              ELSE /\ result' = res
                   /\ pc' = "returned"
                   /\ UNCHANGED results
    /\ UNCHANGED <<caller, entry, n, arg, frame, rows, trace>>


(***************************************************************************)
(* compute_probabilities                                                   *)
(***************************************************************************)
RECURSIVE Concat(_)
Concat(ss) == IF ss = <<>> THEN <<>> ELSE Head(ss) \o Concat(Tail(ss))

\* the winners of a list of games, each with the slot idx it is tallied in
GameWins(games, idx) == [k \in 1..Len(games) |-> <<games[k][1], idx>>]

\* the tallies of one result in the order the loops make them, with the
\* semifinal winners in the championship slot
ResultWinsF4AsChamp(res) ==
    LET rb   == res.region_brackets
        regs == SelectSeq(REGIONS, LAMBDA r : r \in DOMAIN rb)
    IN  Concat([x \in 1..Len(regs) |->
            Concat([r \in 1..Len(rb[regs[x]]) |-> GameWins(rb[regs[x]][r], r)])])
        \o GameWins(res.f4_results, 6)
        \o << <<res.champ_result[1], 6>> >>

\* the tallies of one result in the order the loops make them: rounds[r_idx]
\* of each region into slot r_idx, f4_results into slot 4, champ_result's
\* winner into slot 5 (slots are counted from 1 here)
ResultWins(res) ==
    LET rb   == res.region_brackets
        regs == SelectSeq(REGIONS, LAMBDA r : r \in DOMAIN rb)
    IN  Concat([x \in 1..Len(regs) |->
            Concat([r \in 1..Len(rb[regs[x]]) |-> GameWins(rb[regs[x]][r], r)])])
        \o GameWins(res.f4_results, 5)
        \o << <<res.champ_result[1], 6>> >>

\* counts[name][idx] with the check of the winner's name left out
WinCountAnyName(h, wins, name, idx) ==
    Cardinality({kj \in UNION {{<<k, j>> : j \in DOMAIN wins[k]} : k \in DOMAIN wins} :
                    wins[kj[1]][kj[2]][2] = idx})

\* counts[name][idx] after the loop over results: one is added per tally
\* <<winner, idx>> of a result whose winner carries the name (a name that is
\* no key of counts is skipped, and has no entry here)
WinCount(h, wins, name, idx) ==
    Cardinality({kj \in UNION {{<<k, j>> : j \in DOMAIN wins[k]} : k \in DOMAIN wins} :
                    /\ h[wins[kj[1]][kj[2]][1]].name = name
                    /\ wins[kj[1]][kj[2]][2] = idx})

\* round(c, 4): the count itself, not divided by the number of results
Round4Undivided(c, num) == c * 10000

\* round(c / num, 4) in units of 0.0001: the nearest, a tie to the even one
Round4(c, num) ==
    LET x == c * 10000
        q == x \div num
        r == x % num
    IN  IF 2 * r < num THEN q
        ELSE IF 2 * r > num THEN q + 1
        ELSE IF q % 2 = 0 THEN q ELSE q + 1

\* rows.sort(key=prb_win_champ) without reverse=True: stable and ascending
SortAsc(rs) ==
    LET place(k) == 1 + Cardinality({j \in DOMAIN rs :
                        \/ rs[j].prb_win_champ < rs[k].prb_win_champ
                        \/ /\ rs[j].prb_win_champ = rs[k].prb_win_champ
                           /\ j < k})
    IN  [q \in DOMAIN rs |-> rs[CHOOSE k \in DOMAIN rs : place(k) = q]]

\* rows.sort(key=prb_win_champ, reverse=True): stable and descending, so a
\* row goes behind the rows with a larger key and the earlier rows with an
\* equal key
SortDesc(rs) ==
    LET place(k) == 1 + Cardinality({j \in DOMAIN rs :
                        \/ rs[j].prb_win_champ > rs[k].prb_win_champ
                        \/ /\ rs[j].prb_win_champ = rs[k].prb_win_champ
                           /\ j < k})
    IN  [q \in DOMAIN rs |-> rs[CHOOSE k \in DOMAIN rs : place(k) = q]]

\* counts of compute_probabilities after the loop over results: a list of
\* 6 counts per name of a Team of the list
Counts(h, lst, rs) ==
    LET zero == [name \in {h[lst[k]].name : k \in DOMAIN lst} |->
                    [idx \in 1..NumStages |-> 0]]
        wins == [k \in 1..Len(rs) |-> ResultWins(rs[k])]
    IN  [name \in DOMAIN zero |->
            [idx \in 1..NumStages |->
                zero[name][idx] + WinCount(h, wins, name, idx)]]

\* compute_probabilities(teams, results), for len(results) > 0
ComputeProbabilities(h, lst, rs) ==
    LET num    == Len(rs)
        counts == Counts(h, lst, rs)
        row(t) == LET c == counts[h[t].name]
                  IN  [team          |-> h[t].name,
                       seed          |-> h[t].seed,
                       region        |-> h[t].region,
                       prb_win_rd64  |-> Round4(c[1], num),
                       prb_win_rd32  |-> Round4(c[2], num),
                       prb_win_s16   |-> Round4(c[3], num),
                       prb_win_e8    |-> Round4(c[4], num),
                       prb_win_f4    |-> Round4(c[5], num),
                       prb_win_champ |-> Round4(c[6], num)]
    IN  SortDesc([k \in 1..Len(lst) |-> row(lst[k])])

(***************************************************************************)
(* run.py: one run_single, then run_trials and compute_probabilities       *)
(***************************************************************************)
\* result = run_single(teams): simulate_tournament(copy.deepcopy(teams))
RunSingle ==
    /\ pc = "main"
    /\ entry' = "run_single"
    /\ LET c == DeepCopy(heap, teams)
       IN  /\ heap' = c.heap
           /\ EnterTournament(heap', c.list)
    /\ UNCHANGED <<caller, rng, n, result, results, rows, trace>>

\* run_trials(teams, k) is entered: the list of results is empty
EnterTrials(k) ==
    /\ n' = k
    /\ entry' = "run_trials"
    /\ results' = <<>>
    /\ pc' = "trials"
    /\ UNCHANGED <<heap, caller, rng, arg, frame, result, rows, trace>>

\* if args.trials > 0: all_results = run_trials(teams, args.trials)
RunTrials ==
    /\ pc = "returned"
    /\ entry = "run_single"
    /\ \E k \in 1..MaxTrials : EnterTrials(k)

\* args.trials == 0: run.py ends after the single simulation
SkipTrials ==
    /\ pc = "returned"
    /\ entry = "run_single"
    /\ pc' = "exit"
    /\ UNCHANGED <<heap, caller, rng, entry, n, arg, frame,
                   result, results, rows, trace>>

\* one element of [run_single(teams) for _ in range(n)]
Trial ==
    /\ pc = "trials"
    /\ Len(results) < n
    /\ LET c == DeepCopy(heap, teams)
       IN  /\ heap' = c.heap
           /\ EnterTournament(c.heap, c.list)
    /\ UNCHANGED <<caller, rng, entry, n, result, results, rows, trace>>

\* run_trials returns the list of n results
ReturnTrials ==
    /\ pc = "trials"
    /\ Len(results) = n
    /\ result' = results
    /\ pc' = "returned"
    /\ UNCHANGED <<heap, caller, rng, entry, n, arg, frame, results, rows, trace>>

\* rows = compute_probabilities(teams, all_results)
ComputeRows ==
    /\ pc = "returned"
    /\ entry = "run_trials"
    /\ rows' = ComputeProbabilities(heap, teams, results)
    /\ entry' = "compute_probabilities"
    /\ UNCHANGED <<heap, caller, rng, pc, n, arg, frame, result, results, trace>>

\* save_probabilities and the printed table: run.py ends
Exit ==
    /\ pc = "returned"
    /\ entry = "compute_probabilities"
    /\ pc' = "exit"
    /\ UNCHANGED <<heap, caller, rng, entry, n, arg, frame,
                   result, results, rows, trace>>

\* the games of a run, each drawing from the generator's next state
RegionGame == PlayRegionGame(NextRng(rng))
Semifinal == PlaySemifinal(NextRng(rng))
Championship == PlayChampionship(NextRng(rng))

Next ==
    \/ RunSingle
    \/ RegionGame
    \/ Semifinal
    \/ Championship
    \/ RunTrials
    \/ SkipTrials
    \/ Trial
    \/ ReturnTrials
    \/ ComputeRows
    \/ Exit

Spec == Init /\ [][Next]_vars


(***************************************************************************)
(* A caller of the core, as the tests are: from a fresh roster it makes    *)
(* one call of simulate_game, simulate_region, simulate_tournament,        *)
(* run_single or run_trials on its own Teams, and compute_probabilities on *)
(* what run_trials returned.                                               *)
(***************************************************************************)
\* positions of the roster whose Teams the caller hands to simulate_game
MaxPick == 3

\* simulate_game(teams[x], teams[y]): the whole call
CallSimulateGame ==
    /\ pc = "main"
    /\ \E x \in 1..MaxPick, y \in 1..MaxPick :
          /\ x # y
          /\ LET g == SimulateGame(heap, teams[x], teams[y], Uniform(NextRng(rng)))
             IN  /\ heap' = g.heap
                 /\ result' = <<g.winner, g.loser>>
                 /\ arg' = <<teams[x], teams[y]>>
    /\ rng' = NextRng(rng)
    /\ entry' = "simulate_game"
    /\ pc' = "returned"
    /\ UNCHANGED <<caller, n, frame, results, rows, trace>>

\* region_teams = [t for t in teams if t.region == r]
RegionTeams(r) == SelectSeq(teams, LAMBDA t : heap[t].region = r)

\* simulate_region(region_teams) is entered, for the Teams of some region
CallSimulateRegion ==
    /\ pc = "main"
    /\ \E r \in Range(REGIONS) :
          /\ arg' = RegionTeams(r)
          /\ EnterRegion(heap, RegionTeams(r))
    /\ entry' = "simulate_region"
    /\ UNCHANGED <<heap, caller, rng, n, regions, reg, region_winners,
                   region_brackets, f4_results, f4_winners,
                   result, results, rows, trace>>

\* simulate_tournament(teams) is entered, on the caller's own list
CallSimulateTournament ==
    /\ pc = "main"
    /\ entry' = "simulate_tournament"
    /\ EnterTournament(heap, teams)
    /\ UNCHANGED <<heap, caller, rng, n, result, results, rows, trace>>

\* run_trials(teams, k) is entered
CallRunTrials ==
    /\ pc = "main"
    /\ \E k \in 1..MaxTrials : EnterTrials(k)

NextCore ==
    \/ CallSimulateGame
    \/ CallSimulateRegion
    \/ CallSimulateTournament
    \/ RunSingle
    \/ CallRunTrials
    \/ RegionGame
    \/ Semifinal
    \/ Championship
    \/ Trial
    \/ ReturnTrials
    \/ ComputeRows

SpecCore == Init /\ [][NextCore]_vars

(***************************************************************************)
(* simulate_region on the Teams of one region, given in some order, with   *)
(* the generator in an arbitrary state at each draw: both outcomes of      *)
(* every game are followed.                                                *)
(***************************************************************************)
\* the list [lst[1 + (a * (k - 1) + b) mod len] for k]: for a prime to the
\* length, a permutation of lst
Reorder(lst, a, b) ==
    [k \in 1..Len(lst) |-> lst[1 + ((a * (k - 1) + b) % Len(lst))]]

\* generator states whose values are the least and the greatest of random()
AnyRng == {0, RandMod - 1}

\* the make_teams roster, as the region_teams fixture takes it
InitRegion ==
    /\ Fresh(MakeTeams(1), 0)
    /\ arg = <<>>

\* simulate_region(region_teams) is entered, for the east Teams as the
\* roster lists them or in the reverse order
CallSimulateRegionEast ==
    /\ pc = "main"
    /\ \E a \in {1, 15} :
          /\ arg' = Reorder(RegionTeams(REGIONS[1]), a, a - 1)
          /\ EnterRegion(heap, arg')
    /\ entry' = "simulate_region"
    /\ UNCHANGED <<heap, caller, rng, n, regions, reg, region_winners,
                   region_brackets, f4_results, f4_winners,
                   result, results, rows, trace>>

AnyRegionGame == \E s \in AnyRng : PlayRegionGame(s)

NextRegion ==
    \/ CallSimulateRegionEast
    \/ AnyRegionGame

SpecRegion == InitRegion /\ [][NextRegion]_vars

(***************************************************************************)
(* build_region_bracket on the 16 Teams of a region in a shuffled order,   *)
(* as TestBuildRegionBracket calls it.                                     *)
(***************************************************************************)
\* rotations of the list that the caller may hand over
NumShifts == 8

\* region_teams is the Teams of one region, reordered
InitBracket ==
    /\ \E k \in 1..NumRosters : Fresh(MakeTeams(k), 0)
    /\ \E r \in Range(REGIONS) : \E a \in {1, 3, 5, 7, 9, 11, 13, 15} :
          \E b \in 0..(NumShifts - 1) :
             arg = Reorder(RegionTeams(r), a, b)

\* bracket = build_region_bracket(region_teams)
CallBuildRegionBracket ==
    /\ pc = "main"
    /\ result' = BuildRegionBracket(heap, arg)
    /\ entry' = "build_region_bracket"
    /\ pc' = "returned"
    /\ UNCHANGED <<heap, caller, rng, n, arg, frame, results, rows, trace>>

NextBracket == CallBuildRegionBracket

SpecBracket == InitBracket /\ [][NextBracket]_vars

(***************************************************************************)
(* win_prob, update_elo and simulate_game on two Teams A and B, as         *)
(* TestWinProb, TestUpdateElo and TestSimulateGame call them: the two      *)
(* probabilities, then A beating B, then B beating A on a second pair of   *)
(* the same ratings (test_upset_gains_more), then a game on a third pair.  *)
(***************************************************************************)
\* ratings A and B may have
NumRatings == 10

\* the ratings, as offsets in rating units from 1500 points: gaps from one
\* rating unit to hundreds of points
RatingOffsets ==
    <<0, 1, 5, 17, 87, 1025, 9957, 49973, 100045, 300007, 199979, 600000>>

RatingSet == {1500 * RScale + RatingOffsets[k] : k \in 1..NumRatings}

\* the Teams: A, B and two more pairs rated like them
PairTeams(ra, rb) ==
    [x \in 1..6 |-> IF x % 2 = 1 THEN Team(<<"A", x>>, ra, 1, "east")
                                 ELSE Team(<<"B", x>>, rb, 16, "east")]

InitPair ==
    /\ \E ra \in RatingSet : \E rb \in RatingSet :
          \E s \in 0..(NumSeeds - 1) : Fresh(PairTeams(ra, rb), s)
    /\ arg = <<>>

\* the record of a call: the function, its Teams, what it returned, and the
\* heap and the generator before and after
CallRecord(fn, a, b, ret, h1, s1) ==
    [fn |-> fn, a |-> a, b |-> b, ret |-> ret,
     before |-> heap, after |-> h1, rng0 |-> rng, rng1 |-> s1]

\* win_prob(A, B), then win_prob(B, A)
CallWinProb ==
    /\ pc = "main"
    /\ Len(trace) < 2
    /\ LET a == IF trace = <<>> THEN 1 ELSE 2
           b == IF trace = <<>> THEN 2 ELSE 1
       IN  trace' = Append(trace,
               CallRecord("win_prob", a, b, WinProb(heap, a, b), heap, rng))
    /\ entry' = "win_prob"
    /\ UNCHANGED <<heap, caller, rng, pc, n, arg, frame, result, results, rows>>

\* update_elo(A, B), then update_elo(B2, A2) on the second pair
CallUpdateElo ==
    /\ pc = "main"
    /\ Len(trace) \in {2, 3}
    /\ LET winner == IF Len(trace) = 2 THEN 1 ELSE 4
           loser  == IF Len(trace) = 2 THEN 2 ELSE 3
           h1     == UpdateElo(heap, winner, loser)
       IN  /\ heap' = h1
           /\ trace' = Append(trace,
                  CallRecord("update_elo", winner, loser, <<>>, h1, rng))
    /\ entry' = "update_elo"
    /\ UNCHANGED <<caller, rng, pc, n, arg, frame, result, results, rows>>

\* simulate_game(A3, B3) on the third pair
CallGame ==
    /\ pc = "main"
    /\ Len(trace) = 4
    /\ LET s1 == NextRng(rng)
           g  == SimulateGame(heap, 5, 6, Uniform(s1))
       IN  /\ heap' = g.heap
           /\ rng' = s1
           /\ result' = <<g.winner, g.loser>>
           /\ trace' = Append(trace,
                  CallRecord("simulate_game", 5, 6, <<g.winner, g.loser>>,
                             g.heap, s1))
    /\ entry' = "simulate_game"
    /\ pc' = "returned"
    /\ UNCHANGED <<caller, n, arg, frame, results, rows>>

NextPair ==
    \/ CallWinProb
    \/ CallUpdateElo
    \/ CallGame

SpecPair == InitPair /\ [][NextPair]_vars

(***************************************************************************)
(* _validate_teams, and rosters that are not valid: a caller that builds   *)
(* its Teams itself, as TestValidateTeams does, and hands them to          *)
(* _validate_teams or to run_single.                                       *)
(***************************************************************************)
\* the ways a roster is spoilt
NumFaults == 9
\* the positions of the roster where it is spoilt
NumSpots == 7

FaultSpots == {1 + 9 * (j - 1) : j \in 1..NumSpots}

\* the list without its element at position x
RemoveAt(h, x) == [k \in 1..(Len(h) - 1) |-> IF k < x THEN h[k] ELSE h[k + 1]]

\* make_teams() spoilt at position x in the way f; f = 1 spoils nothing
FaultyRoster(f, x) ==
    LET good == MakeTeams(1)
        y    == (x % Len(good)) + 1
        r    == good[x].region
        nxt  == REGIONS[(((x - 1) \div 16 + 1) % Len(REGIONS)) + 1]
    IN  IF f = 2 THEN RemoveAt(good, x)
        ELSE IF f = 3 THEN [good EXCEPT ![x].name = good[y].name]
        ELSE IF f = 4 THEN [good EXCEPT ![x].region = nxt]
        ELSE IF f = 5 THEN [good EXCEPT ![x].seed = 17]
        ELSE IF f = 6 THEN [good EXCEPT ![x].seed = (good[x].seed % 16) + 1]
        ELSE IF f = 7 THEN [k \in DOMAIN good |->
                               IF good[k].region = r
                               THEN [good[k] EXCEPT !.region = "atlantic"]
                               ELSE good[k]]
        ELSE IF f = 8 THEN Append(good, [good[x] EXCEPT !.name = <<"extra", 0>>])
        ELSE IF f = 9 THEN [good EXCEPT ![x].region = "atlantic"]
        ELSE IF f = 10 THEN SelectSeq(good, LAMBDA t : t.region # r)
        ELSE good

InitFaulty ==
    /\ \E f \in 1..NumFaults : \E x \in FaultSpots : Fresh(FaultyRoster(f, x), 0)
    /\ arg = <<>>

\* sorted(seq) for a list of numbers
SortedInts(seq) ==
    LET place(k) == 1 + Cardinality({j \in DOMAIN seq :
                        \/ seq[j] < seq[k]
                        \/ seq[j] = seq[k] /\ j < k})
    IN  [q \in DOMAIN seq |-> seq[CHOOSE k \in DOMAIN seq : place(k) = q]]

\* _validate_teams without the check of the region names
ValidateErrorsKnownRegions(h, lst) ==
    LET names     == [k \in DOMAIN lst |-> h[lst[k]].name]
        by_region == [r \in {h[lst[k]].region : k \in DOMAIN lst} |->
                         SelectSeq(lst, LAMBDA t : h[t].region = r)]
        seeds(r)  == SortedInts([k \in DOMAIN by_region[r] |-> h[by_region[r][k]].seed])
    IN  (IF Len(names) # Cardinality(Range(names))
         THEN {<<"Duplicate team names", "">>} ELSE {})
        \cup (IF Len(lst) # 64 THEN {<<"Expected 64 teams", "">>} ELSE {})
        \cup (IF Cardinality(DOMAIN by_region) # 4
              THEN {<<"Expected 4 regions", "">>} ELSE {})
        \cup {<<"expected 16 teams", r>> :
                 r \in {q \in DOMAIN by_region : Len(by_region[q]) # 16}}
        \cup {<<"seeds must be 1-16 exactly once", r>> :
                 r \in {q \in DOMAIN by_region :
                          /\ Len(by_region[q]) = 16
                          /\ seeds(q) # [k \in 1..16 |-> k]}}

\* errors of _validate_teams(teams): what it raises ValueError with, if any
ValidateErrors(h, lst) ==
    LET names     == [k \in DOMAIN lst |-> h[lst[k]].name]
        by_region == [r \in {h[lst[k]].region : k \in DOMAIN lst} |->
                         SelectSeq(lst, LAMBDA t : h[t].region = r)]
        unknown   == DOMAIN by_region \ Range(REGIONS)
        seeds(r)  == SortedInts([k \in DOMAIN by_region[r] |-> h[by_region[r][k]].seed])
    IN  (IF Len(names) # Cardinality(Range(names))
         THEN {<<"Duplicate team names", "">>} ELSE {})
        \cup (IF Len(lst) # 64 THEN {<<"Expected 64 teams", "">>} ELSE {})
        \cup (IF unknown # {} THEN {<<"Unknown region name(s)", "">>} ELSE {})
        \cup (IF Cardinality(DOMAIN by_region) # 4
              THEN {<<"Expected 4 regions", "">>} ELSE {})
        \cup {<<"expected 16 teams", r>> :
                 r \in {q \in DOMAIN by_region : Len(by_region[q]) # 16}}
        \cup {<<"seeds must be 1-16 exactly once", r>> :
                 r \in {q \in DOMAIN by_region :
                          /\ Len(by_region[q]) = 16
                          /\ seeds(q) # [k \in 1..16 |-> k]}}

\* _validate_teams(teams): returns None, or raises ValueError
CallValidateTeams ==
    /\ pc = "main"
    /\ entry' = "_validate_teams"
    /\ pc' = IF ValidateErrors(heap, teams) = {} THEN "returned" ELSE "raised"
    /\ UNCHANGED <<heap, caller, rng, n, arg, frame, result, results, rows, trace>>

NextFaulty ==
    \/ CallValidateTeams
    \/ RunSingle
    \/ RegionGame
    \/ Semifinal
    \/ Championship

SpecFaulty == InitFaulty /\ [][NextFaulty]_vars

(***************************************************************************)
(* Two runs on the same draws: random.seed(s) and run_single(teams), then  *)
(* random.seed(s) again and run_single on the same Teams in another order. *)
(***************************************************************************)
\* the strides of the orders the second run takes the roster in
Strides == {1, 7}

InitTwice ==
    /\ \E k \in 1..NumRosters : Fresh(MakeTeams(k), 0)
    /\ arg = <<>>

\* random.seed(s); first = run_single(teams)
SeededRun ==
    /\ pc = "main"
    /\ \E s \in 0..(NumSeeds - 1) :
          /\ rng' = s
          /\ trace' = <<[fn |-> "random.seed", ret |-> s]>>
    /\ entry' = "run_single"
    /\ LET c == DeepCopy(heap, teams)
       IN  /\ heap' = c.heap
           /\ EnterTournament(c.heap, c.list)
    /\ UNCHANGED <<caller, n, result, results, rows>>

\* random.seed(s); second = run_single(shuffled), the first result kept
SeededRunReordered ==
    /\ pc = "returned"
    /\ entry = "run_single"
    /\ results = <<>>
    /\ results' = <<result>>
    /\ rng' = trace[1].ret
    /\ \E a \in Strides : \E b \in 0..(NumShifts - 1) :
          LET c == DeepCopy(heap, Reorder(teams, a, b))
          IN  /\ heap' = c.heap
              /\ EnterTournament(c.heap, c.list)
    /\ UNCHANGED <<caller, entry, n, result, rows, trace>>

NextTwice ==
    \/ SeededRun
    \/ SeededRunReordered
    \/ RegionGame
    \/ Semifinal
    \/ Championship

SpecTwice == InitTwice /\ [][NextTwice]_vars

(***************************************************************************)
(* The knockout run to its end: result = run_single(teams) of run.py with  *)
(* the seeded generator.  Nothing in simulator.py waits or blocks, so the  *)
(* interpreter takes the next step of the call whenever there is one.      *)
(***************************************************************************)
\* a game of a region inside run_single
SeededRegionGame ==
    /\ entry = "run_single"
    /\ RegionGame

NextKnockout ==
    \/ RunSingle
    \/ SeededRegionGame
    \/ Semifinal
    \/ Championship

SpecKnockout == Init /\ [][NextKnockout]_vars /\ WF_vars(NextKnockout)

(***************************************************************************)
(* C1  run_single(roster) and run_trials(roster, n) leave every Team of    *)
(* the caller's roster with the name, rating, seed and region it had: in   *)
(* every state of run.py's run, each Team the roster refers to equals the  *)
(* Team first built, the rating updates having gone to the copies.         *)
(***************************************************************************)
C1_RosterPreserved ==
    \A k \in DOMAIN teams : heap[teams[k]] = orig[teams[k]]

\* run_trials has returned n >= 1 results, and a game of a trial has changed
\* the rating of a copy of a Team
C1_Witness ==
    /\ pc = "exit"
    /\ n >= 1
    /\ Len(results) = n
    /\ \E k \in DOMAIN teams :
          heap[Len(heap) - Len(teams) + k].elo # orig[teams[k]].elo


(***************************************************************************)
(* C2  As claimed: no call into the core changes the rating of a Team of   *)
(* the roster the caller passed in.                                        *)
(***************************************************************************)
C2_NoCallMutates ==
    \A k \in DOMAIN teams : heap[teams[k]].elo = orig[teams[k]].elo

(***************************************************************************)
(* C2, amended  During and after a call of run_single, run_trials or       *)
(* compute_probabilities every Team of the caller's roster has the rating  *)
(* it had; simulate_game, simulate_region and simulate_tournament update   *)
(* in place, and change no Team but those handed to them.                  *)
(***************************************************************************)
C2_OnlyDirectCallsMutate ==
    /\ entry \in {"run_single", "run_trials", "compute_probabilities"} =>
          \A k \in DOMAIN teams : heap[teams[k]].elo = orig[teams[k]].elo
    /\ entry \in {"simulate_game", "simulate_region", "simulate_tournament"} =>
          /\ Len(heap) = Len(orig)
          /\ \A t \in DOMAIN orig : heap[t] # orig[t] => t \in Range(arg)

\* compute_probabilities has returned the rows of a run_trials whose games
\* changed the ratings of the copies
C2_Witness ==
    /\ entry = "compute_probabilities"
    /\ rows # <<>>
    /\ \E t \in DOMAIN heap : t > Len(orig) /\ heap[t].elo # heap[t - Len(orig)].elo

(***************************************************************************)
(* C3  simulate_region, on the 16 Teams of a region with each seed 1..16   *)
(* once and whatever the outcomes of the games, returns exactly 4 rounds   *)
(* of 8, 4, 2 and 1 games, and a champion that is one of the 16 Teams      *)
(* passed in and the winner of the one game of the last round.             *)
(***************************************************************************)
C3_RegionShape ==
    (pc = "returned" /\ entry = "simulate_region") =>
        LET winner == result[1]
            rounds == result[2]
        IN  /\ Len(rounds) = 4
            /\ [r \in 1..4 |-> Len(rounds[r])] = <<8, 4, 2, 1>>
            /\ winner \in Range(arg)
            /\ winner = rounds[4][1][1]

\* simulate_region has returned, and the 16 seed won the region
C3_Witness ==
    /\ pc = "returned"
    /\ entry = "simulate_region"
    /\ Len(arg) = 16
    /\ heap[result[1]].seed = 16

(***************************************************************************)
(* C4  build_region_bracket, on the 16 Teams of a region in any order,     *)
(* returns 16 Teams that are a permutation of those given, whose           *)
(* consecutive pairs carry the seeds (1,16), (8,9), (5,12), (4,13),        *)
(* (6,11), (3,14), (7,10), (2,15) in that order, and the list returned is  *)
(* the one returned for the same Teams in the roster's order.              *)
(***************************************************************************)
C4_BracketOrder ==
    (pc = "returned" /\ entry = "build_region_bracket") =>
        /\ Len(result) = 16
        /\ Len(arg) = 16
        /\ Range(result) = Range(arg)
        /\ \A j \in 1..16 : \A k \in 1..16 : result[j] = result[k] => j = k
        /\ [k \in 1..8 |-> <<heap[result[2 * k - 1]].seed, heap[result[2 * k]].seed>>]
              = << <<1, 16>>, <<8, 9>>, <<5, 12>>, <<4, 13>>,
                   <<6, 11>>, <<3, 14>>, <<7, 10>>, <<2, 15>> >>
        /\ result = BuildRegionBracket(heap, RegionTeams(heap[arg[1]].region))

\* build_region_bracket has returned for a list that began with neither the
\* 1 seed nor the 16 seed, and the list returned is in another order
C4_Witness ==
    /\ pc = "returned"
    /\ entry = "build_region_bracket"
    /\ heap[arg[1]].seed \notin {1, 16}
    /\ heap[arg[2]].seed # 16
    /\ result # arg

(***************************************************************************)
(* C5  Every result of simulate_tournament (the one run_single returns and *)
(* each one run_trials gathers) holds the rounds of exactly the regions    *)
(* east, west, south and midwest, 2 semifinal games and 1 championship     *)
(* game; semifinal 1 is between the east and west region champions,        *)
(* semifinal 2 between the south and midwest champions, the championship   *)
(* between the two semifinal winners, who are two distinct Teams, and the  *)
(* champion is the winner of the championship game.                        *)
(***************************************************************************)
C5_TournamentResults ==
    (IF pc = "returned" /\ entry = "run_single" THEN {result} ELSE {})
        \cup Range(results)

C5_RegionChampion(res, r) == res.region_brackets[r][4][1][1]

C5_TournamentShape ==
    \A res \in C5_TournamentResults :
        /\ DOMAIN res.region_brackets = {"east", "west", "south", "midwest"}
        /\ \A r \in DOMAIN res.region_brackets : Len(res.region_brackets[r]) = 4
        /\ Len(res.f4_results) = 2
        /\ Len(res.champ_result) = 2
        /\ {res.f4_results[1][1], res.f4_results[1][2]}
              = {C5_RegionChampion(res, "east"), C5_RegionChampion(res, "west")}
        /\ {res.f4_results[2][1], res.f4_results[2][2]}
              = {C5_RegionChampion(res, "south"), C5_RegionChampion(res, "midwest")}
        /\ {res.champ_result[1], res.champ_result[2]}
              = {res.f4_results[1][1], res.f4_results[2][1]}
        /\ res.champ_result[1] # res.champ_result[2]
        /\ res.champion = res.champ_result[1]

\* run_single has returned a tournament whose champion came from the west
\* or the midwest, through the second semifinal or past the east champion
C5_Witness ==
    /\ pc = "returned"
    /\ entry = "run_single"
    /\ heap[result.champion].region \in {"west", "midwest"}
    /\ heap[result.f4_results[1][1]].region = "west"

(***************************************************************************)
(* C6  simulate_game(A, B) draws from the generator exactly once; with u   *)
(* the value drawn and p = win_prob(A, B) on the ratings before the call,  *)
(* it returns (A, B) if u < p and (B, A) otherwise; the pair returned is   *)
(* the two Teams given; and the ratings after the call are those before    *)
(* it with update_elo(winner, loser) applied once.                         *)
(***************************************************************************)
C6_Games == {k \in DOMAIN trace : trace[k].fn = "simulate_game"}

C6_OneDrawDecides ==
    \A k \in C6_Games :
        LET e == trace[k]
            u == Uniform(e.rng1)
            p == WinProb(e.before, e.a, e.b)
        IN  /\ e.rng1 = NextRng(e.rng0)
            /\ (u < p) => e.ret = <<e.a, e.b>>
            /\ ~(u < p) => e.ret = <<e.b, e.a>>
            /\ {e.ret[1], e.ret[2]} = {e.a, e.b}
            /\ e.ret[1] # e.ret[2]
            /\ e.after = UpdateElo(e.before, e.ret[1], e.ret[2])

\* a game that the lower-rated second Team won
C6_Witness ==
    \E k \in C6_Games :
        /\ trace[k].ret = <<trace[k].b, trace[k].a>>
        /\ trace[k].before[trace[k].b].elo < trace[k].before[trace[k].a].elo
        /\ trace[k].after[trace[k].b].elo > trace[k].before[trace[k].b].elo

(***************************************************************************)
(* C7  As claimed: after update_elo(winner, loser) the sum of the two      *)
(* ratings is the sum before the update.                                   *)
(***************************************************************************)
C7_Updates == {k \in DOMAIN trace : trace[k].fn = "update_elo"}

C7_SumBefore(k) == trace[k].before[trace[k].a].elo + trace[k].before[trace[k].b].elo

C7_SumAfter(k) == trace[k].after[trace[k].a].elo + trace[k].after[trace[k].b].elo

C7_ExactZeroSum ==
    \A k \in C7_Updates : C7_SumAfter(k) = C7_SumBefore(k)

(***************************************************************************)
(* C7, amended  With p = win_prob(winner, loser) taken once on the         *)
(* ratings before the update and K = 20, the winner's rating rises by      *)
(* K*(1-p) and the loser's falls by K*(1-p), each to within half a unit of *)
(* the rating's resolution (each sum is rounded on its own); the sum of    *)
(* the two ratings after the update is within one unit of resolution of    *)
(* the sum before, and no other Team changes.                              *)
(***************************************************************************)
Abs(x) == IF x < 0 THEN 0 - x ELSE x

C7_ZeroSumToResolution ==
    \A k \in C7_Updates :
        LET e    == trace[k]
            fine == PScale \div RScale
            d    == 20 * (PScale - WinProb(e.before, e.a, e.b))
            rise == e.after[e.a].elo - e.before[e.a].elo
            fall == e.before[e.b].elo - e.after[e.b].elo
        IN  /\ 2 * Abs(rise * fine - d) <= fine
            /\ 2 * Abs(fall * fine - d) <= fine
            /\ Abs(C7_SumAfter(k) - C7_SumBefore(k)) <= 1
            /\ \A t \in DOMAIN e.before :
                  t \notin {e.a, e.b} => e.after[t] = e.before[t]

\* an update after which the sum of the two ratings is not the sum before
C7_Witness ==
    \E k \in C7_Updates :
        /\ trace[k].after[trace[k].a].elo > trace[k].before[trace[k].a].elo
        /\ C7_SumAfter(k) # C7_SumBefore(k)

(***************************************************************************)
(* C8  As claimed: for two Teams of different ratings, the rating the      *)
(* lower-rated Team gains by update_elo(underdog, favorite) is strictly    *)
(* greater than the rating the higher-rated Team gains by                  *)
(* update_elo(favorite, underdog) from the same ratings.                   *)
(***************************************************************************)
\* the gain of A in update_elo(A, B) and of B2 in update_elo(B2, A2)
C8_GainA == trace[3].after[1].elo - trace[3].before[1].elo

C8_GainB == trace[4].after[4].elo - trace[4].before[4].elo

C8_Gap == orig[1].elo - orig[2].elo

C8_UnderdogGain == IF C8_Gap < 0 THEN C8_GainA ELSE C8_GainB

C8_FavoriteGain == IF C8_Gap < 0 THEN C8_GainB ELSE C8_GainA

C8_BothUpdatesDone ==
    /\ Len(trace) >= 4
    /\ trace[3].fn = "update_elo" /\ trace[3].a = 1 /\ trace[3].b = 2
    /\ trace[4].fn = "update_elo" /\ trace[4].a = 4 /\ trace[4].b = 3
    /\ trace[3].before[1].elo = trace[4].before[3].elo
    /\ trace[3].before[2].elo = trace[4].before[4].elo

C9_BothProbabilities ==
    /\ Len(trace) >= 2
    /\ trace[1].fn = "win_prob" /\ trace[1].a = 1 /\ trace[1].b = 2
    /\ trace[2].fn = "win_prob" /\ trace[2].a = 2 /\ trace[2].b = 1

C9_Complementary ==
    C9_BothProbabilities =>
        /\ trace[1].ret + trace[2].ret - PScale \in {-1, 0, 1}
        /\ orig[1].elo = orig[2].elo =>
              /\ 2 * trace[1].ret = PScale
              /\ 2 * trace[2].ret = PScale

\* both probabilities are taken for ratings over 100 points apart, and the
\* higher-rated Team's is the greater
C9_Witness ==
    /\ C9_BothProbabilities
    /\ orig[1].elo - orig[2].elo > 100 * RScale
    /\ trace[1].ret > trace[2].ret
    /\ trace[2].ret > 0

(***************************************************************************)
(* C10  In the rows compute_probabilities returns for N results, every     *)
(* Team of the roster has one row, and its value for each of the 6 stages  *)
(* is (the number of trials in which a Team of that name is the winner of  *)
(* a game of the stage) / N rounded to 4 decimals, the games of a stage    *)
(* being: round r of the regions for the stages rd64, rd32, s16 and e8,    *)
(* the two semifinals for f4, and the championship game alone for champ.   *)
(***************************************************************************)
\* the winners of the games of a stage (counted from 1) in a result
C10_StageWinners(res, stage) ==
    IF stage <= 4
    THEN {res.region_brackets[r][stage][g][1] :
             r \in DOMAIN res.region_brackets, g \in 1..(2 ^ (4 - stage))}
    ELSE IF stage = 5 THEN {res.f4_results[g][1] : g \in 1..2}
    ELSE {res.champ_result[1]}

C10_Trials(name, stage) ==
    {k \in DOMAIN results :
        \E t \in C10_StageWinners(results[k], stage) : heap[t].name = name}

C10_Values(row) ==
    <<row.prb_win_rd64, row.prb_win_rd32, row.prb_win_s16,
      row.prb_win_e8, row.prb_win_f4, row.prb_win_champ>>

C10_Returned == entry = "compute_probabilities" /\ rows # <<>>

C10_Frequencies ==
    C10_Returned =>
        /\ Len(rows) = Len(teams)
        /\ \A k \in DOMAIN teams : \E q \in DOMAIN rows :
              rows[q].team = heap[teams[k]].name
        /\ \A q \in DOMAIN rows : \A stage \in 1..6 :
              LET c == Cardinality(C10_Trials(rows[q].team, stage))
                  v == C10_Values(rows[q])[stage]
              IN  2 * Abs(v * Len(results) - c * 10000) <= Len(results)

\* rows of two trials in which a Team won one semifinal of the two but no
\* championship: its f4 value is 0.5 and its champ value 0
C10_Witness ==
    /\ C10_Returned
    /\ Len(results) = 2
    /\ \E q \in DOMAIN rows :
          /\ rows[q].prb_win_f4 = 5000
          /\ rows[q].prb_win_champ = 0

(***************************************************************************)
(* C11  After N >= 1 trials, the championship counts that                  *)
(* compute_probabilities holds before it divides and rounds, summed over   *)
(* the Teams of the roster, are exactly N: each trial has one champion,    *)
(* and the champion carries the name of a roster Team.                     *)
(***************************************************************************)
\* the sum of f over the positions a..b, by halves
RECURSIVE SumOver(_, _, _)
SumOver(f, a, b) ==
    IF a > b THEN 0
    ELSE IF a = b THEN f[a]
    ELSE SumOver(f, a, (a + b) \div 2) + SumOver(f, ((a + b) \div 2) + 1, b)

C11_ChampCounts ==
    LET counts == Counts(heap, teams, results)
    IN  [k \in DOMAIN teams |-> counts[heap[teams[k]].name][6]]

C11_ChampCountsSumToN ==
    C10_Returned =>
        /\ Len(results) >= 1
        /\ SumOver(C11_ChampCounts, 1, Len(teams)) = Len(results)
        /\ \A k \in DOMAIN results : \E t \in DOMAIN teams :
              heap[results[k].champion].name = heap[teams[t]].name

\* the counts of three trials that two different Teams won
C11_Witness ==
    /\ C10_Returned
    /\ Len(results) = 3
    /\ \E j \in DOMAIN teams : \E k \in DOMAIN teams :
          /\ C11_ChampCounts[j] = 2
          /\ C11_ChampCounts[k] = 1

(***************************************************************************)
(* C12  In the rows compute_probabilities returns for the results of       *)
(* run_trials, the prb_win_champ values (rounded to 4 decimals) of all the *)
(* rows sum to 1.0 within 0.02.                                            *)
(***************************************************************************)
C12_ChampColumn == [q \in DOMAIN rows |-> rows[q].prb_win_champ]

C12_ChampSum == SumOver(C12_ChampColumn, 1, Len(rows))

C12_ChampColumnSumsToOne ==
    C10_Returned =>
        /\ C12_ChampSum >= 10000 - 200
        /\ C12_ChampSum <= 10000 + 200

\* the rows of three trials that three different Teams won: each has
\* 0.3333, and the column sums to 0.9999
C12_Witness ==
    /\ C10_Returned
    /\ Len(results) = 3
    /\ C12_ChampSum = 9999

(***************************************************************************)
(* C13  In every row compute_probabilities returns for the results of      *)
(* run_trials, prb_win_rd64 >= prb_win_rd32 >= prb_win_s16 >= prb_win_e8   *)
(* >= prb_win_f4 >= prb_win_champ.                                         *)
(***************************************************************************)
C13_NonIncreasingAcrossStages ==
    C10_Returned =>
        \A q \in DOMAIN rows : \A stage \in 1..5 :
            C10_Values(rows[q])[stage] >= C10_Values(rows[q])[stage + 1]

\* a row of a Team that won its first game in every trial, the
\* championship in some trials and lost a semifinal in another
C13_Witness ==
    /\ C10_Returned
    /\ \E q \in DOMAIN rows :
          /\ rows[q].prb_win_rd64 = 10000
          /\ rows[q].prb_win_e8 > rows[q].prb_win_f4
          /\ rows[q].prb_win_champ > 0

(***************************************************************************)
(* C15  compute_probabilities returns one row per Team of the roster, with *)
(* the Team's name, seed and region; each of the six values of a row is in *)
(* [0, 1]; and the rows are in the order of non-increasing prb_win_champ.  *)
(***************************************************************************)
C15_RowsOfRoster ==
    C10_Returned =>
        /\ Len(rows) = Len(teams)
        /\ \A k \in DOMAIN teams :
              Cardinality({q \in DOMAIN rows :
                              /\ rows[q].team = heap[teams[k]].name
                              /\ rows[q].seed = heap[teams[k]].seed
                              /\ rows[q].region = heap[teams[k]].region}) = 1
        /\ \A q \in DOMAIN rows : \A stage \in 1..6 :
              /\ C10_Values(rows[q])[stage] >= 0
              /\ C10_Values(rows[q])[stage] <= 10000
        /\ \A q \in 1..(Len(rows) - 1) :
              rows[q].prb_win_champ >= rows[q + 1].prb_win_champ

\* rows whose first is not the roster's first Team, with three different
\* prb_win_champ values among them
C15_Witness ==
    /\ C10_Returned
    /\ rows[1].team # heap[teams[1]].name
    /\ rows[1].prb_win_champ > rows[2].prb_win_champ
    /\ rows[2].prb_win_champ > rows[Len(rows)].prb_win_champ

(***************************************************************************)
(* C14  In run_trials every trial starts on a fresh copy: when a trial is  *)
(* about to play its first game, each Team of its list is a new object     *)
(* equal to the caller's Team at the same position as first built,         *)
(* whatever the trials before did; and no step of a trial changes a Team   *)
(* object that a result gathered before holds.                             *)
(***************************************************************************)
\* the Team objects a result holds: the two Teams of each first-round game
C14_ResultTeams(res) ==
    {res.region_brackets[r][1][g][c] :
        r \in DOMAIN res.region_brackets, g \in 1..8, c \in 1..2}

C14_GatheredTeams == UNION {C14_ResultTeams(results[k]) : k \in DOMAIN results}

C14_TrialStart ==
    /\ pc = "region"
    /\ entry = "run_trials"
    /\ reg = 1
    /\ all_rounds = <<>>
    /\ round_results = <<>>

C14_FreshCopy ==
    C14_TrialStart =>
        /\ Len(arg) = Len(teams)
        /\ \A k \in DOMAIN arg :
              /\ heap[arg[k]] = orig[teams[k]]
              /\ arg[k] \notin Range(teams)
              /\ arg[k] \notin C14_GatheredTeams

C14_TrialsIndependent ==
    /\ []C14_FreshCopy
    /\ [][\A t \in C14_GatheredTeams : heap'[t] = heap[t]]_vars

\* the third trial starts after two trials whose games changed the ratings
\* of their own copies
C14_Witness ==
    /\ C14_TrialStart
    /\ Len(results) = 2
    /\ C14_ResultTeams(results[1]) \cap C14_ResultTeams(results[2]) = {}
    /\ \E t \in C14_ResultTeams(results[1]) : \E u \in C14_ResultTeams(results[2]) :
          /\ heap[t].name = heap[u].name
          /\ heap[t].elo # heap[u].elo

(***************************************************************************)
(* C16  _validate_teams returns without an error if the roster has 64      *)
(* Teams of pairwise distinct names, its regions are exactly east, west,   *)
(* south and midwest, each region has 16 Teams and each region has every   *)
(* seed 1..16 exactly once; it raises ValueError for every other roster.   *)
(***************************************************************************)
C16_InRegion(r) == {k \in DOMAIN teams : heap[teams[k]].region = r}

C16_Valid ==
    /\ Len(teams) = 64
    /\ \A j \in DOMAIN teams : \A k \in DOMAIN teams :
          heap[teams[j]].name = heap[teams[k]].name => j = k
    /\ {heap[teams[k]].region : k \in DOMAIN teams} = {"east", "west", "south", "midwest"}
    /\ \A r \in {"east", "west", "south", "midwest"} :
          /\ Cardinality(C16_InRegion(r)) = 16
          /\ \A sd \in 1..16 :
                Cardinality({k \in C16_InRegion(r) : heap[teams[k]].seed = sd}) = 1

C16_RaisesIffInvalid ==
    entry = "_validate_teams" =>
        /\ pc \in {"returned", "raised"}
        /\ pc = "returned" <=> C16_Valid

\* _validate_teams has raised for a roster of 64 Teams in 4 regions of 16
\* with every seed once, one region being unknown
C16_Witness ==
    /\ entry = "_validate_teams"
    /\ pc = "raised"
    /\ Len(teams) = 64
    /\ \A r \in {heap[teams[k]].region : k \in DOMAIN teams} :
          \A sd \in 1..16 :
             Cardinality({k \in C16_InRegion(r) : heap[teams[k]].seed = sd}) = 1

(***************************************************************************)
(* C20  run_single on a roster the caller built, valid or not: if it       *)
(* returns, the result holds all 63 games (4 regions of 8 + 4 + 2 + 1, 2   *)
(* semifinals, 1 championship); if it fails, it raises and the caller gets *)
(* no result; on a roster with an unknown region label or a region that    *)
(* lacks a seed it never returns; and the Teams of the caller's roster are *)
(* in every state as the caller built them.                                *)
(***************************************************************************)
C20_Games(res) ==
    SumOver([x \in 1..4 |->
                SumOver([r \in 1..4 |-> Len(res.region_brackets[REGIONS[x]][r])], 1, 4)],
            1, 4)
      + Len(res.f4_results) + 1

C20_Complete(res) ==
    /\ DOMAIN res.region_brackets = {"east", "west", "south", "midwest"}
    /\ \A r \in DOMAIN res.region_brackets :
          [k \in 1..4 |-> Len(res.region_brackets[r][k])] = <<8, 4, 2, 1>>
    /\ Len(res.f4_results) = 2
    /\ Len(res.champ_result) = 2
    /\ res.champion = res.champ_result[1]
    /\ C20_Games(res) = 63

C20_PreconditionBroken ==
    \/ \E k \in DOMAIN teams :
          heap[teams[k]].region \notin {"east", "west", "south", "midwest"}
    \/ \E r \in {"east", "west", "south", "midwest"} : \E sd \in 1..16 :
          \A k \in DOMAIN teams :
             ~(heap[teams[k]].region = r /\ heap[teams[k]].seed = sd)

C20_AllOrNothing ==
    entry = "run_single" =>
        /\ \A k \in DOMAIN teams : heap[teams[k]] = orig[teams[k]]
        /\ pc = "returned" => C20_Complete(result)
        /\ pc # "returned" => result = <<>>
        /\ C20_PreconditionBroken => pc # "returned"

\* run_single has raised after the games of a region were played on the
\* copies, and the caller has no result
C20_Witness ==
    /\ entry = "run_single"
    /\ pc = "raised"
    /\ region_brackets # <<>>
    /\ result = <<>>
    /\ \E k \in DOMAIN teams : heap[Len(teams) + k].elo # heap[teams[k]].elo

(***************************************************************************)
(* C17  In simulate_region, at every moment and whatever the outcomes,     *)
(* game g of a round after the first is between the winners of games       *)
(* 2g - 1 and 2g of the round before (games counted from 1), and no loser  *)
(* of a game plays in a later round.                                       *)
(***************************************************************************)
\* the games played so far, round by round
C17_Played ==
    all_rounds \o (IF round_results = <<>> THEN <<>> ELSE <<round_results>>)

C17_WinnersAdvance ==
    entry = "simulate_region" =>
        /\ \A r \in 2..Len(C17_Played) : \A g \in DOMAIN C17_Played[r] :
              {C17_Played[r][g][1], C17_Played[r][g][2]}
                 = {C17_Played[r - 1][2 * g - 1][1], C17_Played[r - 1][2 * g][1]}
        /\ \A r \in DOMAIN C17_Played : \A g \in DOMAIN C17_Played[r] :
              \A r2 \in (r + 1)..Len(C17_Played) : \A g2 \in DOMAIN C17_Played[r2] :
                 C17_Played[r][g][2] \notin {C17_Played[r2][g2][1], C17_Played[r2][g2][2]}

\* the region is played out, the winner of the last first-round game won
\* it, and the second-round game 1 went to the winner of first-round game 2
C17_Witness ==
    /\ entry = "simulate_region"
    /\ pc = "returned"
    /\ Len(all_rounds) = 4
    /\ all_rounds[4][1][1] = all_rounds[1][8][1]
    /\ all_rounds[2][1][1] = all_rounds[1][2][1]

(***************************************************************************)
(* C18  Within a run the rating updates feed forward: every game is        *)
(* decided by win_prob on the ratings as they are when it is played, and   *)
(* its update_elo is done in the same step, before any later game; so the  *)
(* Teams of every game after the round of 64 play with ratings changed by  *)
(* their earlier games of the run, not with the ratings the run began      *)
(* with.                                                                   *)
(***************************************************************************)
C18_InGame == pc \in {"region", "final_four", "championship"}

\* the two Teams of the game that is played next
C18_Upcoming ==
    IF pc = "region" THEN <<current[i + 1], current[i + 2]>>
    ELSE IF pc = "final_four"
    THEN <<region_winners[SEMIFINAL_PAIRS[Len(f4_results) + 1][1]],
           region_winners[SEMIFINAL_PAIRS[Len(f4_results) + 1][2]]>>
    ELSE <<f4_winners[1], f4_winners[2]>>

\* the (winner, loser) of the game that was played last
C18_LastGame ==
    IF pc = "region"
    THEN IF round_results # <<>> THEN round_results[Len(round_results)]
         ELSE IF all_rounds # <<>>
         THEN all_rounds[Len(all_rounds)][Len(all_rounds[Len(all_rounds)])]
         ELSE region_brackets[REGIONS[reg - 1]][4][1]
    ELSE IF pc = "final_four"
    THEN IF f4_results # <<>> THEN f4_results[Len(f4_results)]
         ELSE region_brackets[REGIONS[Len(REGIONS)]][4][1]
    ELSE IF pc = "championship" THEN f4_results[Len(f4_results)]
    ELSE IF pc = "trials" THEN results[Len(results)].champ_result
    ELSE result.champ_result

\* the game played next is after the round of 64
C18_LaterRound ==
    /\ C18_InGame
    /\ pc = "region" => all_rounds # <<>>

\* the Team as the run began with it: the caller's Team it is a copy of
C18_AtStart(t) == orig[((t - 1) % Len(orig)) + 1]

C18_ChangedRatings ==
    C18_LaterRound =>
        \A c \in 1..2 :
            /\ heap[C18_Upcoming[c]].name = C18_AtStart(C18_Upcoming[c]).name
            /\ heap[C18_Upcoming[c]].elo > C18_AtStart(C18_Upcoming[c]).elo

C18_GameStep ==
    C18_InGame =>
        LET a == C18_Upcoming[1]
            b == C18_Upcoming[2]
            g == C18_LastGame'
            u == Uniform(rng')
        IN  /\ rng' = NextRng(rng)
            /\ (u < WinProb(heap, a, b)) => g = <<a, b>>
            /\ ~(u < WinProb(heap, a, b)) => g = <<b, a>>
            /\ heap' = UpdateElo(heap, g[1], g[2])

C18_FeedForward ==
    /\ []C18_ChangedRatings
    /\ [][C18_GameStep]_vars

\* a game after the round of 64 is next, and the value the generator gives
\* next decides it one way on the ratings as they are and the other way on
\* the ratings the run began with
C18_Witness ==
    /\ C18_LaterRound
    /\ LET a == C18_Upcoming[1]
           b == C18_Upcoming[2]
           u == Uniform(NextRng(rng))
           start == [t \in DOMAIN heap |-> C18_AtStart(t)]
       IN  (u < WinProb(heap, a, b)) # (u < WinProb(start, a, b))

(***************************************************************************)
(* C19  Two runs of simulate_tournament on the same Teams, the second in   *)
(* another list order, with the generator seeded alike: the regions are    *)
(* played in the order east, west, south, midwest, and both runs have the  *)
(* same games (by the names of winner and loser) in every round of every   *)
(* region, the same semifinals, the same championship and champion, and    *)
(* leave every Team with the same rating.                                  *)
(***************************************************************************)
C19_Named(g) == <<heap[g[1]].name, heap[g[2]].name>>

\* a result with every Team replaced by its name
C19_ByName(res) ==
    [region_brackets |->
        [r \in DOMAIN res.region_brackets |->
            [k \in DOMAIN res.region_brackets[r] |->
                [g \in DOMAIN res.region_brackets[r][k] |->
                    C19_Named(res.region_brackets[r][k][g])]]],
     region_winners |->
        [r \in DOMAIN res.region_winners |-> heap[res.region_winners[r]].name],
     f4_results |-> [g \in DOMAIN res.f4_results |-> C19_Named(res.f4_results[g])],
     champ_result |-> C19_Named(res.champ_result),
     champion |-> heap[res.champion].name]

C19_BothReturned ==
    /\ pc = "returned"
    /\ entry = "run_single"
    /\ Len(results) = 1

C19_SameRun ==
    /\ (pc = "region" /\ entry = "run_single") =>
          DOMAIN region_brackets = {REGIONS[k] : k \in 1..(reg - 1)}
    /\ C19_BothReturned =>
          /\ C19_ByName(result) = C19_ByName(results[1])
          /\ \A t \in C14_ResultTeams(results[1]) : \A u \in C14_ResultTeams(result) :
                heap[t].name = heap[u].name => heap[t] = heap[u]

\* both runs are done, the second on a list that begins with another Team,
\* and a Team that is no 1 seed is the champion
C19_Witness ==
    /\ C19_BothReturned
    /\ heap[arg[1]].name # heap[teams[1]].name
    /\ heap[arg[2]].seed # heap[arg[1]].seed + 1
    /\ heap[result.champion].seed # 1
    /\ heap[result.champion].elo # C18_AtStart(result.champion).elo

(***************************************************************************)
(* C21  Every tournament of run.py's run is a single elimination: its 63   *)
(* games have 63 different losers, a Team plays at most one game of a      *)
(* stage, a Team that lost a game plays no game of a later stage, and the  *)
(* champion is the one Team of the 64 that lost no game.                   *)
(***************************************************************************)
\* the games of a result as <<stage, region, number, winner, loser>>, the
\* stages counted from 1
C21_Games(res) ==
    UNION {{<<k, r, g, res.region_brackets[r][k][g][1], res.region_brackets[r][k][g][2]>> :
               g \in DOMAIN res.region_brackets[r][k]} :
           r \in DOMAIN res.region_brackets, k \in 1..4}
      \cup {<<5, "", g, res.f4_results[g][1], res.f4_results[g][2]>> :
               g \in DOMAIN res.f4_results}
      \cup {<<6, "", 1, res.champ_result[1], res.champ_result[2]>>}

\* the Teams that entered the tournament
C21_Entrants(res) == C14_ResultTeams(res)

C21_Knockout(res) ==
    LET games == C21_Games(res)
    IN  /\ Cardinality(games) = 63
        /\ Cardinality({x[5] : x \in games}) = 63
        /\ Cardinality(C21_Entrants(res)) = 64
        /\ \A x \in games : x[4] # x[5] /\ {x[4], x[5]} \subseteq C21_Entrants(res)
        /\ \A x \in games : \A y \in games :
              (x # y /\ ({x[4], x[5]} \cap {y[4], y[5]}) # {}) => x[1] # y[1]
        /\ \A x \in games : \A y \in games :
              y[1] > x[1] => x[5] \notin {y[4], y[5]}
        /\ C21_Entrants(res) \ {x[5] : x \in games} = {res.champion}

C21_SingleElimination ==
    \A res \in C5_TournamentResults : C21_Knockout(res)

\* run_single has returned a tournament in which a 1 seed lost its first
\* game and a Team seeded below 8 is the champion
C21_Witness ==
    /\ pc = "returned"
    /\ entry = "run_single"
    /\ \E x \in C21_Games(result) : x[1] = 1 /\ heap[x[5]].seed = 1
    /\ heap[result.champion].seed > 8

(***************************************************************************)
(* C22  The knockout always ends: every game step raises the number of     *)
(* games resolved by one, so no state comes twice; each region goes from   *)
(* 16 entrants to one in exactly 4 rounds of 8, 4, 2 and 1 games; the      *)
(* tournament returns after exactly 63 games with a champion; and every    *)
(* run that is started returns.                                            *)
(***************************************************************************)
C22_RoundGames(rounds) == SumOver([k \in DOMAIN rounds |-> Len(rounds[k])], 1, Len(rounds))

\* the games resolved so far in the call in progress
C22_Played ==
    (IF pc = "region" THEN C22_RoundGames(all_rounds) + Len(round_results) ELSE 0)
    + SumOver([x \in 1..Len(REGIONS) |->
                  IF REGIONS[x] \in DOMAIN region_brackets
                  THEN C22_RoundGames(region_brackets[REGIONS[x]]) ELSE 0],
              1, Len(REGIONS))
    + Len(f4_results)
    + (IF pc = "returned" THEN 1 ELSE 0)

\* a region in progress: the entrants of round r + 1 are 16 halved r times
C22_RegionRounds ==
    pc = "region" =>
        /\ Len(all_rounds) < 4
        /\ Len(current) * (2 ^ Len(all_rounds)) = 16
        /\ \A r \in DOMAIN all_rounds : Len(all_rounds[r]) * (2 ^ r) = 16

\* a region that has ended: 4 rounds, the last of one game, whose winner is
\* the one Team left
C22_RegionEnded ==
    \A r \in DOMAIN region_brackets :
        /\ Len(region_brackets[r]) = 4
        /\ \A k \in 1..4 : Len(region_brackets[r][k]) * (2 ^ k) = 16
        /\ region_winners[r] = region_brackets[r][4][1][1]

C22_Ended ==
    /\ C22_RegionRounds
    /\ C22_RegionEnded
    /\ C22_Played <= 63
    /\ pc = "returned" =>
          /\ C22_Played = 63
          /\ DOMAIN result.region_brackets = Range(REGIONS)
          /\ result.champion = result.champ_result[1]
          /\ result.champion \in Range(f4_winners)

C22_Terminates ==
    /\ []C22_Ended
    /\ [][C18_InGame => C22_Played' = C22_Played + 1]_vars
    /\ (pc = "main") ~> (pc = "returned")

\* the tournament has returned after a run in which the semifinals and the
\* championship were won by the Team named second
C22_Witness ==
    /\ pc = "returned"
    /\ entry = "run_single"
    /\ C22_Played = 63
    /\ result.f4_results[1][1] = region_winners["west"]
    /\ result.champion = f4_winners[2]

(***************************************************************************)
(* C23  Trials share no mutable state, the random source included: the     *)
(* outcome of a trial is the same whether or not other trials ran before   *)
(* it.  Every trial of run_trials(teams, n) runs the same code on a copy   *)
(* of the same roster, so each has the outcome of the first trial, the     *)
(* one that no trial preceded.                                             *)
(***************************************************************************)
C23_TrialsShareNothing ==
    \A k \in DOMAIN results : C19_ByName(results[k]) = C19_ByName(results[1])

(***************************************************************************)
(* C24  As claimed: within one run the sum of the ratings of the 64 Teams  *)
(* of the run's copy is the sum of the original ratings, after every game. *)
(***************************************************************************)
C24_Total(h, lst) == SumOver([k \in DOMAIN lst |-> h[lst[k]].elo], 1, Len(lst))

\* a run of simulate_tournament on the copy arg is in progress or has ended
C24_InRun == entry \in {"run_single", "run_trials"} /\ arg # <<>>

C24_ExactTotal ==
    C24_InRun => C24_Total(heap, arg) = C24_Total(orig, teams)

(***************************************************************************)
(* C24, amended  A game changes the ratings of its two Teams only, and     *)
(* the sum of the ratings of the run's copy by at most one unit of the     *)
(* rating's resolution (the two sums of update_elo are rounded each on     *)
(* its own); so after g games of a run the sum is within g units of        *)
(* resolution of the sum of the original ratings.                          *)
(***************************************************************************)
\* the games of the run resolved so far
C24_Games == IF C18_InGame THEN C22_Played ELSE 63

C24_TotalToResolution ==
    /\ [](C24_InRun =>
            Abs(C24_Total(heap, arg) - C24_Total(orig, teams)) <= C24_Games)
    /\ [][C18_InGame =>
            /\ Abs(C24_Total(heap', arg) - C24_Total(heap, arg)) <= 1
            /\ \A t \in DOMAIN heap :
                  t \notin {C18_Upcoming[1], C18_Upcoming[2]} => heap'[t] = heap[t]]_vars

\* in a run, after a game, the sum of the ratings of the copy is not the sum
\* of the original ratings
C24_Witness ==
    /\ C24_InRun
    /\ C18_InGame
    /\ C22_Played > 0
    /\ C24_Total(heap, arg) # C24_Total(orig, teams)

=============================================================================
